---- MODULE Spec2Model ----
(***************************************************************************)
(* Model of the seeFood menu pipeline: menu_vision_pipeline.py (extraction *)
(* cleaning, file naming, extension normalisation, the process_menu thread *)
(* pool) and app.py (api_generate_image).                                  *)
(*                                                                         *)
(* Text is modelled as a sequence of one-character strings, so that        *)
(* lower(), strip(), re.sub() and the f-string formatting are computed.    *)
(***************************************************************************)
EXTENDS Integers, Sequences, FiniteSets, TLC

VARIABLES
    cfg,            \* arguments of process_menu / environment keys
    response,       \* what the extraction model answers when it is called
    pc,             \* position of the process_menu caller thread
    items,          \* items returned by extract_menu_items
    task,           \* state of each submitted future, by 0-based index + 1
    taskpath,       \* file path each task wrote (<<>> when none)
    metadata_items, \* metadata["items"], in the order results were appended
    pending_exc,    \* exception travelling out of the with-block
    files,          \* image files present in the output directory
    metadata_file,  \* menu_items.json of the page (<<>> when absent)
    net,            \* network calls made so far
    outcome,        \* what process_menu returned or raised
    arrival,        \* indices of the futures in the order as_completed gave them
    arg,            \* input of the pure function under study
    res,            \* its result
    session_file,   \* session.json of the web session (<<>> when absent)
    page_file,      \* menu_items.json of the session's page, as app.py keeps it
    static_files,   \* image files under the session's page directory
    req,            \* the api_generate_image requests in flight
    upload          \* one process_uploaded_files call and the session directories

vars == <<cfg, response, pc, items, task, taskpath, metadata_items, arrival,
          pending_exc, files, metadata_file, net, outcome, arg, res,
          session_file, page_file, static_files, req, upload>>

batchvars == <<cfg, response, pc, items, task, taskpath, metadata_items, arrival,
               pending_exc, files, metadata_file, net, outcome>>
apivars == <<session_file, page_file, static_files, req>>
others == <<arg, res, apivars, upload>>

\* ------------------------------------------------------------------------
\* Bounds
MaxLen == 3          \* longest text given to sanitize_filename
MaxEntries == 3      \* longest items array in a parsed payload
MaxItems == 3        \* longest items array answered to process_menu
MaxWorkers == 2      \* largest max_workers
MaxSessionItems == 2 \* most items in the web session
MaxReqs == 2         \* api_generate_image requests served

\* ------------------------------------------------------------------------
\* Text helpers (str.lower, str.strip, str.lstrip)

UpperChars == <<"A", "B", "C", "D", "E", "F", "G", "H", "I", "J", "K", "L", "M",
                "N", "O", "P", "Q", "R", "S", "T", "U", "V", "W", "X", "Y", "Z",
                "É">>
LowerChars == <<"a", "b", "c", "d", "e", "f", "g", "h", "i", "j", "k", "l", "m",
                "n", "o", "p", "q", "r", "s", "t", "u", "v", "w", "x", "y", "z",
                "é">>

LowerChar(c) ==
    IF \E i \in 1..Len(UpperChars) : UpperChars[i] = c
    THEN LowerChars[CHOOSE i \in 1..Len(UpperChars) : UpperChars[i] = c]
    ELSE c

Lower(s) == [i \in 1..Len(s) |-> LowerChar(s[i])]

RECURSIVE LStrip(_, _)
LStrip(s, cs) ==
    IF s # <<>> /\ Head(s) \in cs THEN LStrip(Tail(s), cs) ELSE s

RECURSIVE RStrip(_, _)
RStrip(s, cs) ==
    IF s # <<>> /\ s[Len(s)] \in cs THEN RStrip(SubSeq(s, 1, Len(s) - 1), cs) ELSE s

Strip(s, cs) == RStrip(LStrip(s, cs), cs)

Whitespace == {" "}

Digit == <<"0", "1", "2", "3", "4", "5", "6", "7", "8", "9">>

\* str(n) for a natural number
RECURSIVE Decimal(_)
Decimal(n) ==
    IF n < 10 THEN <<Digit[n + 1]>> ELSE Decimal(n \div 10) \o <<Digit[(n % 10) + 1]>>

\* f"{n:02d}"
RECURSIVE ZeroPad(_, _)
ZeroPad(s, width) == IF Len(s) < width THEN ZeroPad(<<"0">> \o s, width) ELSE s

Format02d(n) == ZeroPad(Decimal(n), 2)

\* ------------------------------------------------------------------------
\* sanitize_filename

AlnumChars == {LowerChars[i] : i \in 1..26} \cup {Digit[i] : i \in 1..10}

\* re.sub(r"[^a-z0-9]+", "-", text): every maximal run becomes one hyphen
RECURSIVE ReSubRuns(_, _)
ReSubRuns(text, inRun) ==
    IF text = <<>> THEN <<>>
    ELSE IF Head(text) \in AlnumChars
         THEN <<Head(text)>> \o ReSubRuns(Tail(text), FALSE)
         ELSE (IF inRun THEN <<>> ELSE <<"-">>) \o ReSubRuns(Tail(text), TRUE)

MENU_ITEM == <<"m", "e", "n", "u", "-", "i", "t", "e", "m">>

\* the hyphens are trimmed before the substitution instead of after it
sanitize_filename_trim_first(text) ==
    LET lowered == Lower(text)
        subbed  == ReSubRuns(Strip(lowered, {"-"}), FALSE)
    IN  IF subbed = <<>> THEN MENU_ITEM ELSE subbed

sanitize_filename(text) ==
    LET lowered == Lower(text)
        subbed  == Strip(ReSubRuns(lowered, FALSE), {"-"})
    IN  IF subbed = <<>> THEN MENU_ITEM ELSE subbed

\* ------------------------------------------------------------------------
\* generate_item_image: provider dispatch and extension normalisation

GEMINI_IMAGE_PROVIDER == <<"g", "e", "m", "i", "n", "i", "_", "i", "m", "a", "g", "e", "n">>
FAL_IMAGE_PROVIDER == <<"f", "a", "l", "_", "f", "l", "u", "x", "_", "k", "r", "e", "a">>

PNG == <<"p", "n", "g">>
JPG == <<"j", "p", "g">>
JPEG == <<"j", "p", "e", "g">>

\* an absent hint (None) and an empty one are both falsy, and the code only
\* ever tests the hint for truthiness: both are the empty text here
NoHint == <<>>
HasText(s) == s # <<>>

\* the jpeg spelling is not folded into jpg
normalize_extension_no_jpeg(provider_key, image_format, hint) ==
    LET ext_hint == IF provider_key = FAL_IMAGE_PROVIDER THEN hint ELSE NoHint
        first    == IF provider_key = GEMINI_IMAGE_PROVIDER
                    THEN Lower(image_format)
                    ELSE Lower(IF HasText(ext_hint) THEN ext_hint ELSE image_format)
        stripped == LStrip(first, {"."})
        mapped   == IF stripped = JPG THEN JPG
                    ELSE IF stripped # PNG /\ HasText(ext_hint) THEN ext_hint
                    ELSE stripped
    IN  IF mapped \notin {PNG, JPG} THEN PNG ELSE mapped

\* the final default to png is missing
normalize_extension_no_default(provider_key, image_format, hint) ==
    LET ext_hint == IF provider_key = FAL_IMAGE_PROVIDER THEN hint ELSE NoHint
        first    == IF provider_key = GEMINI_IMAGE_PROVIDER
                    THEN Lower(image_format)
                    ELSE Lower(IF HasText(ext_hint) THEN ext_hint ELSE image_format)
        stripped == LStrip(first, {"."})
    IN  IF stripped \in {JPEG, JPG} THEN JPG
        ELSE IF stripped # PNG /\ HasText(ext_hint) THEN ext_hint
        ELSE stripped

\* lines 344-359, for a provider_key that is one of the two supported tags;
\* hint is what generate_image_with_fal returned (Gemini returns none)
normalize_extension(provider_key, image_format, hint) ==
    LET ext_hint == IF provider_key = FAL_IMAGE_PROVIDER THEN hint ELSE NoHint
        first    == IF provider_key = GEMINI_IMAGE_PROVIDER
                    THEN Lower(image_format)
                    ELSE Lower(IF HasText(ext_hint) THEN ext_hint ELSE image_format)
        stripped == LStrip(first, {"."})
        mapped   == IF stripped \in {JPEG, JPG} THEN JPG
                    ELSE IF stripped # PNG /\ HasText(ext_hint) THEN ext_hint
                    ELSE stripped
    IN  IF mapped \notin {PNG, JPG} THEN PNG ELSE mapped

\* line 360
image_filename(seq, name, extension) ==
    Format02d(seq) \o <<"-">> \o sanitize_filename(name) \o <<".">> \o extension

\* generate_item_image, lines 342-364.  reply is what the provider answers if
\* it is asked: [ok |-> BOOLEAN, hint |-> text].  The result tells whether a
\* request went out, and the path written when the call returns.
generate_item_image(item, seq, image_provider, image_format, fal_api_key, reply) ==
    LET provider_key == Lower(image_provider)
        extension == normalize_extension(provider_key, image_format, reply.hint)
        written == [status |-> "ok", requested |-> TRUE, extension |-> extension,
                    path |-> image_filename(seq, item.name, extension)]
        failed(exc, asked) == [status |-> exc, requested |-> asked,
                               extension |-> <<>>, path |-> <<>>]
    IN  IF provider_key = GEMINI_IMAGE_PROVIDER
        THEN IF reply.ok THEN written ELSE failed("ImageGenerationError", TRUE)
        ELSE IF provider_key = FAL_IMAGE_PROVIDER
        THEN IF ~fal_api_key THEN failed("ValueError", FALSE)      \* line 271
             ELSE IF reply.ok THEN written ELSE failed("ImageGenerationError", TRUE)
        ELSE failed("ValueError", FALSE)                           \* line 352

\* ------------------------------------------------------------------------
\* extract_menu_items: the parsed JSON payload and the cleaning loop

JNull == [t |-> "null", v |-> <<>>]
JStr(s) == [t |-> "str", v |-> s]
JNum(n) == [t |-> "num", v |-> n]
JList(l) == [t |-> "list", v |-> l]
JObj(f) == [t |-> "obj", v |-> f]

\* dict.get(key): None when the key is missing
Get(obj, key) == IF key \in DOMAIN obj.v THEN obj.v[key] ELSE JNull

Truthy(j) ==
    CASE j.t = "null" -> FALSE
      [] j.t = "num"  -> j.v # 0
      [] j.t = "str"  -> j.v # <<>>
      [] j.t = "list" -> j.v # <<>>
      [] j.t = "obj"  -> DOMAIN j.v # {}

\* str(value or "") for the scalar values a field can hold
StrOrEmpty(j) ==
    IF ~Truthy(j) THEN <<>>
    ELSE IF j.t = "num" THEN Decimal(j.v)
    ELSE j.v

SIGNATURE_PREFIX == <<"A", " ", "s", "i", "g", "n", "a", "t", "u", "r", "e", " ",
                      "d", "i", "s", "h", " ", "n", "a", "m", "e", "d", " ">>
NOT_AVAILABLE == <<"N", "/", "A">>

\* a blank description is kept instead of replaced by the default sentence
CleanEntry_blank_description(item) ==
    IF item.t # "obj" THEN <<>>
    ELSE LET name        == Strip(StrOrEmpty(Get(item, "name")), Whitespace)
             price       == Strip(StrOrEmpty(Get(item, "price")), Whitespace)
             description == Strip(StrOrEmpty(Get(item, "description")), Whitespace)
         IN  IF name = <<>> THEN <<>>
             ELSE <<[name |-> name,
                     price |-> IF price = <<>> THEN NOT_AVAILABLE ELSE price,
                     description |-> description]>>

\* lines 215-226, one iteration: <<>> when the entry is skipped
CleanEntry(item) ==
    IF item.t # "obj" THEN <<>>
    ELSE LET name        == Strip(StrOrEmpty(Get(item, "name")), Whitespace)
             price       == Strip(StrOrEmpty(Get(item, "price")), Whitespace)
             description == Strip(StrOrEmpty(Get(item, "description")), Whitespace)
         IN  IF name = <<>> THEN <<>>
             ELSE <<[name |-> name,
                     price |-> IF price = <<>> THEN NOT_AVAILABLE ELSE price,
                     description |-> IF description = <<>>
                                     THEN SIGNATURE_PREFIX \o name \o <<".">>
                                     ELSE description]>>

RECURSIVE CleanItems(_)
CleanItems(entries) ==
    IF entries = <<>> THEN <<>>
    ELSE CleanEntry(Head(entries)) \o CleanItems(Tail(entries))

\* lines 209-231: what extract_menu_items does with the parsed payload
clean_payload(payload) ==
    IF payload.t # "obj"
    THEN [status |-> "AttributeError", items |-> <<>>]     \* payload.get on a non-dict
    ELSE LET entries == Get(payload, "items")
         IN  IF entries.t # "list" \/ entries.v = <<>>
             THEN [status |-> "MenuExtractionError", items |-> <<>>]
             ELSE LET cleaned_items == CleanItems(entries.v)
                  IN  IF cleaned_items = <<>>
                      THEN [status |-> "MenuExtractionError", items |-> <<>>]
                      ELSE [status |-> "ok", items |-> cleaned_items]

\* lines 159-231: the key check, the model call and the handling of its answer
extract_menu_items(openai_key, answer) ==
    IF ~openai_key
    THEN [status |-> "ValueError", items |-> <<>>, called |-> FALSE]   \* line 78-81
    ELSE IF answer.kind \in {"incomplete", "notext", "badjson"}
    THEN [status |-> "MenuExtractionError", items |-> <<>>, called |-> TRUE]
    ELSE [status |-> clean_payload(answer.payload).status,
          items |-> clean_payload(answer.payload).items, called |-> TRUE]

\* ------------------------------------------------------------------------
\* process_menu

\* line 396
worker_seq_constant(index) == 1

worker_seq(index) == index + 1

\* list.sort(key=order) is stable: insert after the entries whose key is <=
RECURSIVE InsertByOrder(_, _)
InsertByOrder(sorted, entry) ==
    IF sorted = <<>> THEN <<entry>>
    ELSE IF sorted[Len(sorted)].order <= entry.order THEN Append(sorted, entry)
    ELSE Append(InsertByOrder(SubSeq(sorted, 1, Len(sorted) - 1), entry),
                sorted[Len(sorted)])

RECURSIVE SortByOrder(_)
SortByOrder(entries) ==
    IF entries = <<>> THEN <<>>
    ELSE InsertByOrder(SortByOrder(SubSeq(entries, 1, Len(entries) - 1)),
                       entries[Len(entries)])

\* the internal key is left in the entry
PopOrder_keep(entry) == entry

\* entry.pop("order")
PopOrder(entry) == [name |-> entry.name, price |-> entry.price,
                    description |-> entry.description,
                    image_path |-> entry.image_path]

\* the results are left in the order they were appended
sort_and_pop_unsorted(entries) == [i \in 1..Len(entries) |-> PopOrder(entries[i])]

\* line 414
sort_and_pop(entries) ==
    LET sorted == SortByOrder(entries)
    IN  [i \in 1..Len(sorted) |-> PopOrder(sorted[i])]

Finished == {"ok", "ImageGenerationError", "ValueError"}
Tasks == 1..Len(items)
Running == {i \in Tasks : task[i] = "running"}

Raise(exc) ==
    /\ pc' = "raised"
    /\ outcome' = [status |-> exc, items |-> <<>>]

\* lines 380-385
Configure ==
    /\ pc = "start"
    /\ IF ~cfg.api_key
       THEN Raise("ValueError")
       ELSE IF Lower(cfg.image_provider) = FAL_IMAGE_PROVIDER /\ ~cfg.fal_api_key
       THEN Raise("ValueError")
       ELSE pc' = "extract" /\ UNCHANGED outcome
    /\ UNCHANGED <<cfg, response, items, task, taskpath, metadata_items, arrival,
                   pending_exc, files, metadata_file, net, others>>

\* lines 387-390
Extract ==
    /\ pc = "extract"
    /\ LET r == extract_menu_items(cfg.openai_key, response)
       IN  /\ net' = [net EXCEPT !.extract = IF r.called THEN @ + 1 ELSE @]
           /\ IF r.status = "ok"
              THEN /\ items' = r.items
                   /\ task' = [i \in 1..Len(r.items) |-> "new"]
                   /\ taskpath' = [i \in 1..Len(r.items) |-> <<>>]
                   /\ pc' = "submit"
                   /\ UNCHANGED outcome
              ELSE /\ Raise(r.status)
                   /\ UNCHANGED <<items, task, taskpath>>
    /\ UNCHANGED <<cfg, response, metadata_items, arrival, pending_exc, files,
                   metadata_file, others>>

\* lines 407-409: executor.submit for the next item of enumerate(items)
Submit ==
    /\ pc = "submit"
    /\ LET i == CHOOSE k \in Tasks : task[k] = "new" /\ \A j \in 1..(k - 1) : task[j] # "new"
       IN  /\ task' = [task EXCEPT ![i] = "queued"]
           /\ pc' = IF i = Len(items) THEN "collect" ELSE "submit"
    /\ UNCHANGED <<cfg, response, items, taskpath, metadata_items, arrival,
                   pending_exc, files, metadata_file, net, outcome, others>>

\* the pool starts a thread per work item, whatever max_workers says
StartTask_unbounded(i) ==
    /\ pc \in {"submit", "collect", "shutdown"}
    /\ task[i] = "queued"
    /\ \A j \in 1..(i - 1) : task[j] # "queued"
    /\ task' = [task EXCEPT ![i] = "running"]
    /\ UNCHANGED <<cfg, response, pc, items, taskpath, metadata_items, arrival,
                   pending_exc, files, metadata_file, net, outcome, others>>

\* a pool thread takes the oldest queued work item; at most max_workers threads
StartTask(i) ==
    /\ pc \in {"submit", "collect", "shutdown"}
    /\ task[i] = "queued"
    /\ \A j \in 1..(i - 1) : task[j] # "queued"
    /\ Cardinality(Running) < cfg.max_workers
    /\ task' = [task EXCEPT ![i] = "running"]
    /\ UNCHANGED <<cfg, response, pc, items, taskpath, metadata_items, arrival,
                   pending_exc, files, metadata_file, net, outcome, others>>

\* lines 392-404: worker(index, item_data) with index = i - 1
RunTask(i, reply) ==
    /\ task[i] = "running"
    /\ LET r == generate_item_image(items[i], worker_seq(i - 1), cfg.image_provider,
                                    cfg.image_format, cfg.fal_api_key, reply)
       IN  /\ net' = [net EXCEPT !.image = IF r.requested THEN @ + 1 ELSE @]
           /\ task' = [task EXCEPT ![i] = r.status]
           /\ IF r.status = "ok"
              THEN /\ files' = files \cup {r.path}
                   /\ taskpath' = [taskpath EXCEPT ![i] = r.path]
              ELSE UNCHANGED <<files, taskpath>>
    /\ UNCHANGED <<cfg, response, pc, items, metadata_items, arrival, pending_exc,
                   metadata_file, outcome, others>>

\* a failed future is skipped instead of re-raised
Collect_swallow(i) ==
    /\ pc = "collect"
    /\ task[i] \in Finished
    /\ i \notin {arrival[k] : k \in 1..Len(arrival)}
    /\ arrival' = Append(arrival, i)
    /\ IF task[i] = "ok"
       THEN metadata_items' = Append(metadata_items,
                [name |-> items[i].name, price |-> items[i].price,
                 description |-> items[i].description,
                 image_path |-> taskpath[i], order |-> i - 1])
       ELSE UNCHANGED metadata_items
    /\ pc' = IF Len(arrival') = Len(items) THEN "shutdown" ELSE "collect"
    /\ UNCHANGED <<cfg, response, items, task, taskpath, pending_exc, files,
                   metadata_file, net, outcome, others>>

\* lines 410-412: as_completed hands over a finished future; result() returns
\* the worker's dict or re-raises its exception, which leaves the with-block
Collect(i) ==
    /\ pc = "collect"
    /\ task[i] \in Finished
    /\ i \notin {arrival[k] : k \in 1..Len(arrival)}
    /\ arrival' = Append(arrival, i)
    /\ IF task[i] = "ok"
       THEN /\ metadata_items' = Append(metadata_items,
                   [name |-> items[i].name, price |-> items[i].price,
                    description |-> items[i].description,
                    image_path |-> taskpath[i], order |-> i - 1])
            /\ pc' = IF Len(arrival') = Len(items) THEN "shutdown" ELSE "collect"
            /\ UNCHANGED pending_exc
       ELSE /\ pending_exc' = task[i]
            /\ pc' = "shutdown"
            /\ UNCHANGED metadata_items
    /\ UNCHANGED <<cfg, response, items, task, taskpath, files,
                   metadata_file, net, outcome, others>>

\* the with-block is left without joining the pool (shutdown(wait=False))
Shutdown_nowait ==
    /\ pc = "shutdown"
    /\ IF pending_exc # "" THEN Raise(pending_exc) ELSE pc' = "sort" /\ UNCHANGED outcome
    /\ UNCHANGED <<cfg, response, items, task, taskpath, metadata_items, arrival,
                   pending_exc, files, metadata_file, net, others>>

\* leaving the with-block: executor.shutdown(wait=True) joins the pool threads,
\* which first drain the work queue
Shutdown ==
    /\ pc = "shutdown"
    /\ \A i \in Tasks : task[i] \in Finished
    /\ IF pending_exc # "" THEN Raise(pending_exc) ELSE pc' = "sort" /\ UNCHANGED outcome
    /\ UNCHANGED <<cfg, response, items, task, taskpath, metadata_items, arrival,
                   pending_exc, files, metadata_file, net, others>>

\* lines 414-420
WriteMetadata ==
    /\ pc = "sort"
    /\ metadata_items' = sort_and_pop(metadata_items)
    /\ metadata_file' = <<[menu_source |-> "menu_path", items |-> metadata_items']>>
    /\ outcome' = [status |-> "returned", items |-> metadata_items']
    /\ pc' = "done"
    /\ UNCHANGED <<cfg, response, items, task, taskpath, arrival, pending_exc,
                   files, net, others>>

\* ------------------------------------------------------------------------
\* Inputs

Text(n, alphabet) == UNION {[1..k -> alphabet] : k \in 0..n}

SlugAlphabet == {"a", "B", "1", "-", " ", "É", "!"}

FormatInputs == {PNG, JPG, JPEG, <<"P", "N", "G">>, <<"J", "P", "E", "G">>,
                 <<".", "p", "n", "g">>, <<".", ".", "J", "p", "g">>,
                 <<"w", "e", "b", "p">>, <<"g", "i", "f">>, <<>>, <<".">>}
\* generate_image_with_fal, lines 303-325: a lower-case suffix without dots,
\* "png"/"jpg" from the Content-Type, or none
HintInputs == {NoHint, PNG, JPG, JPEG, <<"w", "e", "b", "p">>}
ProviderInputs == {GEMINI_IMAGE_PROVIDER, FAL_IMAGE_PROVIDER,
                   <<"F", "a", "l", "_", "F", "L", "U", "X", "_", "k", "r", "e", "a">>,
                   <<"d", "a", "l", "l", "e">>}

Obj3(n, p, d) == JObj([name |-> n, price |-> p, description |-> d])
EntryInputs ==
    { Obj3(JStr(<<" ", "a", " ">>), JStr(<<"$", "1">>), JStr(<<"d">>)),
      JObj([name |-> JStr(<<"b">>), description |-> JStr(<<" ">>)]),
      Obj3(JStr(<<" ">>), JStr(<<"$", "1">>), JStr(<<"d">>)),
      JObj([price |-> JStr(<<"$", "1">>)]),
      JStr(<<"x">>),
      Obj3(JNum(7), JNum(0), JNull),
      Obj3(JStr(<<"b">>), JStr(<<" ">>), JStr(<<>>)) }

Lists(n, S) == UNION {[1..k -> S] : k \in 0..n}

OtherPayloads ==
    { JNull, JNum(1), JStr(<<"x">>), JList(<<>>), JList(<<JStr(<<"x">>)>>),
      JObj([menu |-> JList(<<>>)]), JObj([items |-> JNull]),
      JObj([items |-> JStr(<<"x">>)]), JObj([items |-> JObj([name |-> JStr(<<"b">>)])]) }

PayloadInputs == {JObj([items |-> JList(l)]) : l \in Lists(MaxEntries, EntryInputs)}
                     \cup OtherPayloads

IdleBatch ==
    /\ cfg = <<>> /\ response = <<>> /\ pc = "idle" /\ items = <<>>
    /\ task = <<>> /\ taskpath = <<>> /\ metadata_items = <<>> /\ arrival = <<>>
    /\ pending_exc = "" /\ files = {} /\ metadata_file = <<>>
    /\ net = [extract |-> 0, image |-> 0]
    /\ outcome = [status |-> "running", items |-> <<>>]

IdleApi ==
    /\ session_file = <<>> /\ page_file = <<>> /\ static_files = {} /\ req = <<>>
    /\ upload = <<>>

\* ------------------------------------------------------------------------
\* sanitize_filename applied to a text and to its own result

InitSlug ==
    /\ IdleBatch /\ IdleApi
    /\ arg \in [text : Text(MaxLen, SlugAlphabet)]
    /\ res = [stage |-> 0, once |-> <<>>, twice |-> <<>>]

SlugOnce ==
    /\ res.stage = 0
    /\ res' = [res EXCEPT !.stage = 1, !.once = sanitize_filename(arg.text)]
    /\ UNCHANGED <<batchvars, apivars, upload, arg>>

SlugTwice ==
    /\ res.stage = 1
    /\ res' = [res EXCEPT !.stage = 2, !.twice = sanitize_filename(res.once)]
    /\ UNCHANGED <<batchvars, apivars, upload, arg>>

NextSlug == SlugOnce \/ SlugTwice
SpecSlug == InitSlug /\ [][NextSlug]_vars

\* ------------------------------------------------------------------------
\* generate_item_image applied to one item, for every format and hint

InitExt ==
    /\ IdleBatch /\ IdleApi
    /\ arg \in [image_provider : ProviderInputs, image_format : FormatInputs,
                fal_api_key : BOOLEAN,
                reply : [ok : BOOLEAN, hint : HintInputs]]
    /\ res = [stage |-> 0, result |-> <<>>]

GenerateOne ==
    /\ res.stage = 0
    /\ res' = [stage |-> 1,
               result |-> generate_item_image([name |-> <<"P", "i", "e">>], 1,
                              arg.image_provider, arg.image_format,
                              arg.fal_api_key, arg.reply)]
    /\ UNCHANGED <<batchvars, apivars, upload, arg>>

NextExt == GenerateOne
SpecExt == InitExt /\ [][NextExt]_vars

\* ------------------------------------------------------------------------
\* the cleaning of a parsed payload

InitExtract ==
    /\ IdleBatch /\ IdleApi
    /\ arg \in [payload : PayloadInputs]
    /\ res = [stage |-> 0, result |-> <<>>]

CleanPayload ==
    /\ res.stage = 0
    /\ res' = [stage |-> 1, result |-> clean_payload(arg.payload)]
    /\ UNCHANGED <<batchvars, apivars, upload, arg>>

NextExtract == CleanPayload
SpecExtract == InitExtract /\ [][NextExtract]_vars

\* ------------------------------------------------------------------------
\* Properties of the pure functions

NonBlank(s) == \E i \in 1..Len(s) : s[i] \notin Whitespace

\* the entries of a payload that carry a name
Entries(payload) == Get(payload, "items").v
HasEntries(payload) ==
    payload.t = "obj" /\ Get(payload, "items").t = "list" /\ Entries(payload) # <<>>
Named(payload) ==
    {i \in 1..Len(Entries(payload)) :
        /\ Entries(payload)[i].t = "obj"
        /\ NonBlank(StrOrEmpty(Get(Entries(payload)[i], "name")))}
\* the j-th named entry, counted from the front
NthNamed(payload, j) ==
    CHOOSE i \in Named(payload) : Cardinality({k \in Named(payload) : k <= i}) = j

CleanedWell(payload, result) ==
    /\ result.status = "ok"
    /\ Len(result.items) >= 1
    /\ Len(result.items) <= Len(Entries(payload))
    /\ Len(result.items) = Cardinality(Named(payload))
    /\ \A j \in 1..Len(result.items) :
          /\ result.items[j].name =
                Strip(StrOrEmpty(Get(Entries(payload)[NthNamed(payload, j)], "name")),
                      Whitespace)
          /\ NonBlank(result.items[j].name)
          /\ NonBlank(result.items[j].price)
          /\ NonBlank(result.items[j].description)

\* C6 as claimed: every payload whose items array has at least one entry is
\* cleaned into a non-empty list, no longer than the array, in the array's
\* order, with non-blank name, price and description.
C6_EveryNonEmptyArrayCleans ==
    (res.stage = 1 /\ HasEntries(arg.payload)) => CleanedWell(arg.payload, res.result)

\* C6 amended: that holds when at least one entry of the array is an object
\* with a non-blank name (the entries dropped are the name-less ones and the
\* ones that are no objects); when no entry has a name the call raises
\* MenuExtractionError instead of returning a list.
C6_NamedEntriesCleaned ==
    (res.stage = 1 /\ HasEntries(arg.payload)) =>
        IF Named(arg.payload) # {}
        THEN CleanedWell(arg.payload, res.result)
        ELSE res.result.status = "MenuExtractionError" /\ res.result.items = <<>>

C6_Witness ==
    /\ res.stage = 1
    /\ HasEntries(arg.payload)
    /\ Len(Entries(arg.payload)) = 3
    /\ Named(arg.payload) = {1, 3}
    /\ Len(res.result.items) = 2
    /\ res.result.items[2].price = NOT_AVAILABLE
    /\ res.result.items[1].name # res.result.items[2].name

\* the part of a file name after its last dot
RECURSIVE Suffix(_)
Suffix(path) ==
    IF path = <<>> \/ path[Len(path)] = "." THEN <<>>
    ELSE Suffix(SubSeq(path, 1, Len(path) - 1)) \o <<path[Len(path)]>>

\* the hint generate_item_image holds: only the FAL provider supplies one
EffectiveHint == IF Lower(arg.image_provider) = FAL_IMAGE_PROVIDER
                 THEN arg.reply.hint ELSE NoHint

\* the normalisation policy as specified
PolicyExtension(raw, hint) ==
    LET lowered  == LStrip(Lower(raw), {"."})
        mapped   == IF lowered = JPEG THEN JPG ELSE lowered
        hinted   == IF mapped \notin {PNG, JPG} /\ hint # NoHint THEN hint ELSE mapped
    IN  IF hinted \notin {PNG, JPG} THEN PNG ELSE hinted

\* C8 as claimed: the extension chosen is the policy applied to the configured
\* image_format and the provider's hint.
C8_PolicyOfImageFormat ==
    (res.stage = 1 /\ res.result.status = "ok") =>
        res.result.extension = PolicyExtension(arg.image_format, EffectiveHint)

\* C8 amended: the value the policy normalises is the provider's hint when the
\* provider supplied one and the configured image_format only otherwise.
C8_PolicyOfHintFirst ==
    (res.stage = 1 /\ res.result.status = "ok") =>
        res.result.extension =
            PolicyExtension(IF EffectiveHint # NoHint THEN EffectiveHint
                            ELSE arg.image_format, EffectiveHint)

C8_Witness ==
    /\ res.stage = 1
    /\ res.result.status = "ok"
    /\ Lower(arg.image_provider) = FAL_IMAGE_PROVIDER
    /\ arg.image_format = PNG
    /\ arg.reply.hint = JPEG
    /\ res.result.extension = JPG

\* C9: whatever the configured format and the hint, the written file's
\* extension is png or jpg.
C9_ExtensionTotal ==
    (res.stage = 1 /\ res.result.status = "ok") =>
        /\ res.result.extension \in {PNG, JPG}
        /\ Suffix(res.result.path) \in {PNG, JPG}

C9_Witness ==
    /\ res.stage = 1
    /\ res.result.status = "ok"
    /\ Lower(arg.image_provider) = FAL_IMAGE_PROVIDER
    /\ arg.image_format = <<"g", "i", "f">>
    /\ arg.reply.hint = <<"w", "e", "b", "p">>
    /\ Suffix(res.result.path) = PNG

\* C10: sanitize_filename applied to its own result returns that result.
C10_SlugIdempotent == res.stage = 2 => res.twice = res.once

C10_Witness ==
    /\ res.stage = 2
    /\ arg.text = <<" ", "!">>
    /\ res.once = MENU_ITEM
    /\ res.twice = MENU_ITEM

\* ------------------------------------------------------------------------
\* process_menu: one call, from its arguments to its return or raise.
\* max_workers is at least 1 (ThreadPoolExecutor rejects anything smaller) and
\* the menu image exists.

BatchEntries ==
    { JObj([name |-> JStr(<<"A", " ", "b">>), price |-> JStr(<<"$", "1">>)]),
      JObj([name |-> JStr(<<"a", "-", "b">>), price |-> JStr(<<"$", "1">>)]),
      JObj([name |-> JStr(<<" ">>)]) }

Responses ==
    {[kind |-> k, payload |-> JNull] : k \in {"incomplete", "notext", "badjson"}}
    \cup {[kind |-> "json", payload |-> p] : p \in OtherPayloads}
    \cup {[kind |-> "json", payload |-> JObj([items |-> JList(l)])] :
             l \in Lists(MaxItems, BatchEntries)}

Replies == [ok : BOOLEAN, hint : {NoHint, JPG}]

Init ==
    /\ cfg \in [api_key : BOOLEAN, openai_key : BOOLEAN, fal_api_key : BOOLEAN,
                image_provider : ProviderInputs,
                image_format : {PNG, <<"J", "P", "E", "G">>},
                max_workers : 1..MaxWorkers]
    /\ response \in Responses
    /\ pc = "start"
    /\ items = <<>> /\ task = <<>> /\ taskpath = <<>>
    /\ metadata_items = <<>> /\ arrival = <<>> /\ pending_exc = ""
    /\ files = {} /\ metadata_file = <<>>
    /\ net = [extract |-> 0, image |-> 0]
    /\ outcome = [status |-> "running", items |-> <<>>]
    /\ arg = <<>> /\ res = <<>>
    /\ IdleApi

Next ==
    \/ Configure
    \/ Extract
    \/ Submit
    \/ \E i \in Tasks : StartTask(i)
    \/ \E i \in Tasks, reply \in Replies : RunTask(i, reply)
    \/ \E i \in Tasks : Collect(i)
    \/ Shutdown
    \/ WriteMetadata

Spec == Init /\ [][Next]_vars

Failed == {i \in DOMAIN task : task[i] \in {"ImageGenerationError", "ValueError"}}
Succeeded == {i \in DOMAIN task : task[i] = "ok"}

\* C1: when process_menu returns, position i of the returned list and of
\* menu_items.json is the item extracted at position i, with the image that
\* task i wrote, whatever the order in which the results arrived.
C1_OrderRestored ==
    /\ (pc = "raised" /\ items # <<>>) => Failed # {}
    /\ pc = "done" =>
        /\ outcome.status = "returned"
        /\ Len(outcome.items) = Len(items)
        /\ \A i \in 1..Len(items) :
              outcome.items[i] = [name |-> items[i].name, price |-> items[i].price,
                                  description |-> items[i].description,
                                  image_path |-> taskpath[i]]
        /\ metadata_file = <<[menu_source |-> "menu_path", items |-> outcome.items]>>
        /\ Len(arrival) = Len(items)

C1_Witness ==
    /\ pc = "done"
    /\ arrival = <<3, 2, 1>>
    /\ items[1].name # items[3].name
    /\ outcome.items[1].name = items[1].name

\* C2: the task of position i (0-based) names its file with sequence i+1, and
\* no two tasks of a page write the same path.
C2_SeqAndDistinctPaths ==
    /\ \A i \in Succeeded :
          /\ Len(taskpath[i]) > 3
          /\ SubSeq(taskpath[i], 1, 3) = Format02d(i) \o <<"-">>
          /\ \A j \in Succeeded : j # i => taskpath[j] # taskpath[i]
    /\ Cardinality(files) = Cardinality(Succeeded)

C2_Witness ==
    /\ {1, 2} \subseteq Succeeded
    /\ items[1].name # items[2].name
    /\ sanitize_filename(items[1].name) = sanitize_filename(items[2].name)
    /\ Suffix(taskpath[1]) = Suffix(taskpath[2])
    /\ 3 \in Succeeded
    /\ items[3].name = items[1].name

\* C3: once a task of the page has raised, process_menu does not return and
\* menu_items.json is not written; what leaves process_menu is the exception.
C3_FailureAborts ==
    Failed # {} =>
        /\ metadata_file = <<>>
        /\ pc \notin {"sort", "done"}
        /\ outcome.status # "returned"
        /\ pc = "raised" => /\ outcome.status \in {task[i] : i \in Failed}
                            /\ outcome.items = <<>>

C3_Witness ==
    /\ pc = "raised"
    /\ outcome.status = "ImageGenerationError"
    /\ Cardinality(Succeeded) = 2
    /\ Len(metadata_items) = 2
    /\ files # {}

\* C5 as claimed: a configuration error (ValueError) leaves process_menu
\* before any network call was made.
C5_ConfigErrorBeforeNetwork ==
    (pc = "raised" /\ outcome.status = "ValueError") =>
        net.extract = 0 /\ net.image = 0

\* C7 as claimed: when the model's parsed answer has no items array or an
\* empty one, process_menu ends with MenuExtractionError and has written
\* nothing; no file is written before extraction has succeeded.
C7_NoItemsIsExtractionError ==
    /\ (net.extract > 0 /\ response.kind = "json" /\ ~HasEntries(response.payload)) =>
          /\ pc = "raised"
          /\ outcome.status = "MenuExtractionError"
          /\ files = {}
          /\ metadata_file = <<>>
    /\ (files # {} \/ metadata_file # <<>>) => items # <<>>

\* ------------------------------------------------------------------------
\* app.py: api_generate_image requests against one session.  The session is
\* the one process_uploaded_files saves (lines 136-144, 192-215, 229-235):
\* default provider and format, every image_path None (the empty text here).
\* Reading or writing one file is one step.

IMAGE_FORMAT_DEFAULT == PNG
DEFAULT_IMAGE_PROVIDER == FAL_IMAGE_PROVIDER

SessionNames == {<<"A", " ", "b">>, <<"a", "-", "b">>}

NewSession(names) ==
    [image_provider |-> DEFAULT_IMAGE_PROVIDER,
     image_format |-> IMAGE_FORMAT_DEFAULT,
     items |-> [i \in 1..Len(names) |->
                  [id |-> i, name |-> names[i], sequence |-> i, image_path |-> <<>>]]]

NewPage(names) ==
    [items |-> [i \in 1..Len(names) |-> [id |-> i, image_path |-> <<>>]]]

NoResponse == [code |-> 0, status |-> "", image |-> <<>>]
IdleRequest == [pc |-> "idle", item |-> 0, metadata |-> <<>>, page |-> <<>>,
                path |-> <<>>, response |-> NoResponse]

InitApi ==
    /\ cfg \in [fal_api_key : BOOLEAN]
    /\ response = <<>> /\ pc = "idle" /\ items = <<>>
    /\ task = <<>> /\ taskpath = <<>> /\ metadata_items = <<>> /\ arrival = <<>>
    /\ pending_exc = "" /\ files = {} /\ metadata_file = <<>>
    /\ net = [extract |-> 0, image |-> 0]
    /\ outcome = [status |-> "running", items |-> <<>>]
    /\ arg = <<>> /\ res = <<>>
    /\ \E names \in UNION {[1..n -> SessionNames] : n \in 1..MaxSessionItems} :
          /\ session_file = <<NewSession(names)>>
          /\ page_file = <<NewPage(names)>>
    /\ static_files = {}
    /\ req = [r \in 1..MaxReqs |-> IdleRequest]
    /\ upload = <<>>

Respond(r, code, status, image) ==
    [req[r] EXCEPT !.pc = "done",
                   !.response = [code |-> code, status |-> status, image |-> image]]

\* lines 293-338: request r asks for the item with id k
Load(r, k) ==
    /\ req[r].pc = "idle"
    /\ IF session_file = <<>>
       THEN req' = [req EXCEPT ![r] = Respond(r, 404, "error", <<>>)]
       ELSE LET metadata == session_file[1]
            IN  IF k \notin {metadata.items[i].id : i \in 1..Len(metadata.items)}
                THEN req' = [req EXCEPT ![r] = Respond(r, 404, "error", <<>>)]
                ELSE LET target == metadata.items[
                                     CHOOSE i \in 1..Len(metadata.items) :
                                        metadata.items[i].id = k]
                     IN  IF target.image_path # <<>> /\ target.image_path \in static_files
                         THEN req' = [req EXCEPT ![r] =
                                        Respond(r, 200, "ready", target.image_path)]
                         ELSE req' = [req EXCEPT ![r].pc = "generate", ![r].item = k,
                                                 ![r].metadata = metadata]
    /\ UNCHANGED <<batchvars, arg, res, upload, session_file, page_file, static_files>>

Target(r) == req[r].metadata.items[
                CHOOSE i \in 1..Len(req[r].metadata.items) :
                   req[r].metadata.items[i].id = req[r].item]

\* the session is saved with the expected path although generation failed
Generate_record_on_error(r, reply) ==
    /\ req[r].pc = "generate"
    /\ LET g == generate_item_image(Target(r), Target(r).sequence,
                    req[r].metadata.image_provider, req[r].metadata.image_format,
                    cfg.fal_api_key, reply)
       IN  IF g.status = "ok"
           THEN /\ static_files' = static_files \cup {g.path}
                /\ req' = [req EXCEPT ![r].pc = "save", ![r].path = g.path]
                /\ UNCHANGED session_file
           ELSE /\ req' = [req EXCEPT ![r] =
                      Respond(r, IF g.status = "ValueError" THEN 400 ELSE 502,
                              "error", <<>>)]
                /\ session_file' = <<[req[r].metadata EXCEPT
                      !.items = [i \in 1..Len(@) |->
                         IF @[i].id = req[r].item
                         THEN [@[i] EXCEPT !.image_path =
                                  image_filename(Target(r).sequence, Target(r).name, PNG)]
                         ELSE @[i]]]>>
                /\ UNCHANGED static_files
    /\ UNCHANGED <<batchvars, arg, res, upload, page_file>>

\* lines 340-359
Generate(r, reply) ==
    /\ req[r].pc = "generate"
    /\ LET g == generate_item_image(Target(r), Target(r).sequence,
                    req[r].metadata.image_provider, req[r].metadata.image_format,
                    cfg.fal_api_key, reply)
       IN  IF g.status = "ok"
           THEN /\ static_files' = static_files \cup {g.path}
                /\ req' = [req EXCEPT ![r].pc = "save", ![r].path = g.path]
           ELSE /\ req' = [req EXCEPT ![r] =
                      Respond(r, IF g.status = "ValueError" THEN 400 ELSE 502,
                              "error", <<>>)]
                /\ UNCHANGED static_files
    /\ UNCHANGED <<batchvars, arg, res, upload, session_file, page_file>>

\* lines 361-363: the loaded metadata, with the target's path set, is saved
Save(r) ==
    /\ req[r].pc = "save"
    /\ LET updated == [req[r].metadata EXCEPT
                         !.items = [i \in 1..Len(@) |->
                            IF @[i].id = req[r].item
                            THEN [@[i] EXCEPT !.image_path = req[r].path]
                            ELSE @[i]]]
       IN  /\ session_file' = <<updated>>
           /\ req' = [req EXCEPT ![r].pc = "page", ![r].metadata = updated]
    /\ UNCHANGED <<batchvars, arg, res, upload, page_file, static_files>>

\* update_page_item_image, lines 100-108: read menu_items.json
PageLoad(r) ==
    /\ req[r].pc = "page"
    /\ IF page_file = <<>>
       THEN req' = [req EXCEPT ![r] = Respond(r, 200, "ready", req[r].path)]
       ELSE req' = [req EXCEPT ![r].pc = "pagesave", ![r].page = page_file[1]]
    /\ UNCHANGED <<batchvars, arg, res, upload, session_file, page_file, static_files>>

\* update_page_item_image, lines 109-117, and the response of lines 366-373
PageSave(r) ==
    /\ req[r].pc = "pagesave"
    /\ page_file' = <<[req[r].page EXCEPT
                         !.items = [i \in 1..Len(@) |->
                            IF @[i].id = req[r].item
                            THEN [@[i] EXCEPT !.image_path = req[r].path]
                            ELSE @[i]]]>>
    /\ req' = [req EXCEPT ![r] = Respond(r, 200, "ready", req[r].path)]
    /\ UNCHANGED <<batchvars, arg, res, upload, session_file, static_files>>

NextApi ==
    \/ \E r \in 1..MaxReqs, k \in 1..(MaxSessionItems + 1) : Load(r, k)
    \/ \E r \in 1..MaxReqs, reply \in Replies : Generate(r, reply)
    \/ \E r \in 1..MaxReqs : Save(r)
    \/ \E r \in 1..MaxReqs : PageLoad(r)
    \/ \E r \in 1..MaxReqs : PageSave(r)

SpecApi == InitApi /\ [][NextApi]_vars

SessionItems == session_file[1].items
GenerationFailed(r) ==
    req[r].pc = "done" /\ req[r].item # 0 /\ req[r].response.code \in {400, 502}

\* a request that generated its image, whether or not it has saved yet
Generated(r) == req[r].item # 0 /\ req[r].path # <<>>

\* C4: a failed generation answers with one error response and writes
\* nothing: session.json, the page document and the image files are as they
\* were, the item's image_path is set only by a request that generated it,
\* and every recorded image_path names a file that exists under its name.
C4_FailureIsolated ==
    /\ [][\A r \in 1..MaxReqs :
            /\ (req[r].pc = "generate" /\ req'[r].pc = "done") =>
                  /\ req'[r].response.status = "error"
                  /\ req'[r].response.code \in {400, 502}
                  /\ session_file' = session_file
                  /\ page_file' = page_file
                  /\ static_files' = static_files
            /\ req[r].pc = "done" => req'[r] = req[r]]_vars
    /\ [](\A i \in 1..Len(SessionItems) :
            SessionItems[i].image_path # <<>> =>
               /\ \E r \in 1..MaxReqs : Generated(r) /\ req[r].item = SessionItems[i].id
               /\ SessionItems[i].image_path \in static_files
               /\ \E e \in {PNG, JPG} :
                     SessionItems[i].image_path =
                        image_filename(SessionItems[i].sequence, SessionItems[i].name, e))

C4_Witness ==
    /\ GenerationFailed(2)
    /\ req[2].response.code = 502
    /\ req[2].item = 2
    /\ SessionItems[2].image_path = <<>>
    /\ req[1].pc = "done"
    /\ req[1].response.status = "ready"
    /\ SessionItems[1].image_path \in static_files

\* ------------------------------------------------------------------------
\* The pool of process_menu

SupportedProvider == Lower(cfg.image_provider) \in {GEMINI_IMAGE_PROVIDER, FAL_IMAGE_PROVIDER}
Unstarted == {"new", "queued"}
PoolEntered == pc \in {"collect", "shutdown", "sort", "done"} \/ (pc = "raised" /\ items # <<>>)

\* C12: one task per extracted item, submitted in extraction order; at most
\* max_workers tasks execute at a time; each task asks the provider once; with
\* max_workers = 1 a task starts only when all earlier ones have finished.
C12_BoundedPoolInOrder ==
    /\ DOMAIN task = 1..Len(items)
    /\ Cardinality(Running) <= cfg.max_workers
    /\ \A i, j \in DOMAIN task :
          i < j => /\ task[j] # "new" => task[i] # "new"
                   /\ task[j] \notin Unstarted => task[i] \notin Unstarted
                   /\ (cfg.max_workers = 1 /\ task[j] \notin Unstarted)
                         => task[i] \in Finished
    /\ PoolEntered => \A i \in DOMAIN task : task[i] # "new"
    /\ SupportedProvider =>
          net.image = Cardinality({i \in DOMAIN task : task[i] \in Finished})

C12_Witness ==
    /\ cfg.max_workers = 2
    /\ Len(items) = 3
    /\ Running = {1, 2}
    /\ task[3] = "queued"
    /\ pc = "collect"

\* process_menu with the scheduling the run time gives: the caller thread and
\* the pool threads keep being scheduled and every provider call returns.
\* The credentials are present and the model answers 1..MaxItems items, so
\* that every run gets to the pool.
InitFair ==
    /\ Init
    /\ cfg.api_key /\ cfg.openai_key /\ cfg.fal_api_key
    /\ cfg.image_format = PNG
    /\ cfg.image_provider \in {GEMINI_IMAGE_PROVIDER, <<"d", "a", "l", "l", "e">>}
    /\ response.kind = "json"
    /\ HasEntries(response.payload)
    /\ \A i \in 1..Len(Entries(response.payload)) :
          Entries(response.payload)[i] =
             JObj([name |-> JStr(<<"A", " ", "b">>), price |-> JStr(<<"$", "1">>)])

SpecFair == InitFair /\ [][Next]_vars /\ WF_vars(Next)

\* C13: no task is cancelled.  process_menu neither returns nor raises while a
\* submitted task is unfinished, a finished task stays as it finished, and
\* every submitted task eventually finishes, also after another one failed.
C13_NoCancellation ==
    /\ [](pc \in {"raised", "done"} => \A i \in DOMAIN task : task[i] \in Finished)
    /\ [][\A i \in DOMAIN task : task[i] \in Finished =>
             (i \in DOMAIN task' /\ task'[i] = task[i])]_vars
    /\ <>(items # <<>> /\ \A i \in DOMAIN task : task[i] \in Finished)

C13_Witness ==
    /\ pc = "raised"
    /\ Len(items) = 3
    /\ arrival = <<1>>
    /\ task[1] = "ImageGenerationError"
    /\ task[2] = "ok"
    /\ task[3] = "ok"
    /\ Cardinality(files) = 2

\* C14: menu_items.json exists only once every task of the page has
\* completed, and then holds one entry per extracted item, each with the path
\* its own task wrote and without the "order" key.
C14_MetadataAfterAllTasks ==
    metadata_file # <<>> =>
        /\ \A i \in DOMAIN task : task[i] = "ok"
        /\ Len(metadata_file[1].items) = Len(items)
        /\ \A i \in 1..Len(metadata_file[1].items) :
              /\ DOMAIN metadata_file[1].items[i] =
                    {"name", "price", "description", "image_path"}
              /\ metadata_file[1].items[i].image_path = taskpath[i]
              /\ metadata_file[1].items[i].image_path \in files
              /\ \A j \in 1..Len(metadata_file[1].items) :
                    j # i => metadata_file[1].items[j].image_path
                                # metadata_file[1].items[i].image_path

C14_Witness ==
    /\ metadata_file # <<>>
    /\ Len(metadata_file[1].items) = 3
    /\ cfg.max_workers = 2
    /\ arrival = <<2, 3, 1>>
    /\ metadata_file[1].items[1].name = metadata_file[1].items[2].name

\* ------------------------------------------------------------------------
\* Concurrent api_generate_image requests

AllAnswered == \A r \in 1..MaxReqs : req[r].pc = "done"
PageItems == page_file[1].items

\* C15 as claimed: per item at most one request ever generates and writes the
\* image, and a request that finds the recorded image on disk answers "ready"
\* with it and changes neither session.json nor the page document.
C15_WriteOnce ==
    /\ [](\A k \in 1..MaxSessionItems :
            Cardinality({r \in 1..MaxReqs : Generated(r) /\ req[r].item = k}) <= 1)
    /\ [][\A r \in 1..MaxReqs :
            (req[r].pc = "idle" /\ req'[r].response.status = "ready") =>
               /\ req'[r].response.image \in static_files
               /\ session_file' = session_file
               /\ page_file' = page_file
               /\ static_files' = static_files]_vars

\* C16 as claimed: once requests for distinct items have all answered
\* "ready", session.json and the page document record the image_path each of
\* them generated.
C16_NoLostUpdate ==
    (/\ AllAnswered
     /\ \A r \in 1..MaxReqs : Generated(r) /\ req[r].response.status = "ready"
     /\ \A r1, r2 \in 1..MaxReqs : r1 # r2 => req[r1].item # req[r2].item)
    => \A r \in 1..MaxReqs :
          /\ SessionItems[req[r].item].image_path = req[r].response.image
          /\ PageItems[req[r].item].image_path = req[r].response.image

\* ------------------------------------------------------------------------
\* process_uploaded_files (app.py)

MaxFiles == 2

ALLOWED_EXTENSIONS == {<<"p", "n", "g">>, JPG, JPEG, <<"h", "e", "i", "c">>,
                       <<"w", "e", "b", "p">>}
MAX_FILES == 10

\* "." in filename and filename.rsplit(".", 1)[1].lower() in ALLOWED_EXTENSIONS
allowed_file(filename) ==
    /\ \E i \in 1..Len(filename) : filename[i] = "."
    /\ Lower(Suffix(filename)) \in ALLOWED_EXTENSIONS

\* NFKD normalisation followed by encode("ascii", "ignore")
AsciiFold(s) ==
    [i \in 1..Len(s) |-> IF s[i] = "É" THEN "E" ELSE IF s[i] = "é" THEN "e" ELSE s[i]]

\* filename.replace(os.sep, " ")
ReplaceSep(s) == [i \in 1..Len(s) |-> IF s[i] = "/" THEN " " ELSE s[i]]

\* "_".join(s.split()) for a string without leading or trailing blanks
RECURSIVE JoinSplit(_)
JoinSplit(s) ==
    IF s = <<>> THEN <<>>
    ELSE IF Head(s) \in Whitespace
         THEN <<"_">> \o JoinSplit(LStrip(s, Whitespace))
         ELSE <<Head(s)>> \o JoinSplit(Tail(s))

\* the characters the pattern [^A-Za-z0-9_.-] leaves in place
FilenameChars ==
    AlnumChars \cup {UpperChars[i] : i \in 1..26} \cup {"_", ".", "-"}

\* werkzeug's secure_filename
secure_filename(filename) ==
    LET joined == JoinSplit(Strip(ReplaceSep(AsciiFold(filename)), Whitespace))
    IN  Strip(SelectSeq(joined, LAMBDA c : c \in FilenameChars), {".", "_"})

MENU_PAGE == <<"m", "e", "n", "u", "_", "p", "a", "g", "e", "_">>

\* lines 148-150: the name a page is stored under
StoredName(original, index) ==
    IF secure_filename(original) # <<>>
    THEN secure_filename(original)
    ELSE MENU_PAGE \o Decimal(index) \o <<".">> \o JPG

\* the parameters process_menu declares
ProcessMenuParams ==
    {"menu_path", "output_dir", "api_key", "text_model", "image_provider",
     "image_model", "image_format", "fal_api_key", "fal_model", "fal_image_size",
     "max_workers"}

\* the keywords process_uploaded_files passes to process_menu
CallKeywords ==
    {"menu_path", "output_dir", "api_key", "text_model", "image_provider",
     "image_model", "image_format", "fal_api_key", "fal_model", "fal_image_size",
     "max_workers", "generate_images"}

NoDirectory == [exists |-> FALSE, files |-> {}, pages |-> {}, docs |-> {}]
EmptyDirectory == [exists |-> TRUE, files |-> {}, pages |-> {}, docs |-> {}]
NoResult == [error |-> "", session_id |-> FALSE, items |-> <<>>]

\* lines 121-126
ValidFiles(fs) == SelectSeq(fs, LAMBDA f : f.filename # <<>>)

\* file names and model answers of the uploaded pages
FilenameInputs ==
    { <<"a", ".", "p", "n", "g">>,
      <<"b", ".", "J", "P", "G">>,
      <<"a", ".", "t", "x", "t">>,
      <<".", ".", "/", "x", " ", "y", ".", "w", "e", "b", "p">>,
      <<".", ".">>,
      <<"m", "e", "n", "u">>,
      <<>> }

AnswerInputs ==
    { JObj([items |-> JList(<<Obj3(JStr(<<" ", "a", " ">>), JStr(<<"$", "1">>), JStr(<<"d">>)),
                              JObj([name |-> JStr(<<"b">>)])>>)]),
      JObj([items |-> JList(<<>>)]) }

FileInputs == [filename : FilenameInputs, answer : AnswerInputs]

\* one upload over the limit of MAX_FILES pages
TooManyFiles ==
    [i \in 1..(MAX_FILES + 1) |->
        [filename |-> <<"a", ".", "p", "n", "g">>,
         answer |-> JObj([items |-> JList(<<JObj([name |-> JStr(<<"b">>)])>>)])]]

InitUpload ==
    /\ IdleBatch
    /\ arg = <<>> /\ res = <<>>
    /\ session_file = <<>> /\ page_file = <<>> /\ static_files = {} /\ req = <<>>
    /\ \E fs \in Lists(MaxFiles, FileInputs) \cup {TooManyFiles} :
         upload = [pc |-> "start", files |-> fs, valid_files |-> <<>>, index |-> 0,
                   upload_dir |-> NoDirectory, output_dir |-> NoDirectory,
                   session_items |-> <<>>, menu_items |-> <<>>,
                   exc |-> "", result |-> NoResult]

UploadUnchanged == <<batchvars, arg, res, page_file, static_files, req>>

\* lines 121-144: the file count checks and the two session directories
ValidateFiles ==
    /\ upload.pc = "start"
    /\ LET valid_files == ValidFiles(upload.files)
       IN  upload' =
             IF valid_files = <<>>
             THEN [upload EXCEPT !.pc = "done", !.result.error = "select"]
             ELSE IF Len(valid_files) > MAX_FILES
             THEN [upload EXCEPT !.pc = "done", !.valid_files = valid_files,
                                 !.result.error = "maximum"]
             ELSE [upload EXCEPT !.pc = "page", !.valid_files = valid_files,
                                 !.index = 1,
                                 !.upload_dir = EmptyDirectory,
                                 !.output_dir = EmptyDirectory]
    /\ UNCHANGED <<UploadUnchanged, session_file>>

\* lines 147-167: the type check, the saved upload and the page directory
SavePage(saved) ==
    /\ upload.pc = "page"
    /\ LET storage_file == upload.valid_files[upload.index]
           filename     == StoredName(storage_file.filename, upload.index)
       IN  upload' =
             IF ~allowed_file(filename)
             THEN [upload EXCEPT !.pc = "failed", !.exc = "ValueError"]
             ELSE IF ~saved
             THEN [upload EXCEPT !.pc = "failed", !.exc = "OSError"]
             ELSE [upload EXCEPT !.pc = "process",
                                 !.upload_dir.files = @ \cup {filename},
                                 !.output_dir.pages = @ \cup {upload.index}]
    /\ UNCHANGED <<UploadUnchanged, session_file>>

\* lines 186-227: the records kept for the items of one page
SessionRecords(index, page_items) ==
    [k \in 1..Len(page_items) |->
        [id |-> <<index, k>>, name |-> page_items[k].name,
         price |-> page_items[k].price, description |-> page_items[k].description,
         page |-> index, sequence |-> k, image_path |-> <<>>]]

MenuRecords(index, page_items) ==
    [k \in 1..Len(page_items) |->
        [id |-> <<index, k>>, name |-> page_items[k].name,
         price |-> page_items[k].price, description |-> page_items[k].description,
         image_url |-> <<>>, imageStatus |-> "pending", page |-> index]]

\* lines 169-235: the call of process_menu, which binds its keywords before
\* anything else, then the records of the page and, after the last page,
\* the session metadata
CallProcessMenu ==
    /\ upload.pc = "process"
    /\ IF ~(CallKeywords \subseteq ProcessMenuParams)
       THEN /\ upload' = [upload EXCEPT !.pc = "failed", !.exc = "TypeError"]
            /\ UNCHANGED session_file
       ELSE LET result == clean_payload(upload.valid_files[upload.index].answer)
                session_items == upload.session_items
                                   \o SessionRecords(upload.index, result.items)
                menu_items == upload.menu_items
                                   \o MenuRecords(upload.index, result.items)
                last == upload.index = Len(upload.valid_files)
            IN  IF result.status # "ok"
                THEN /\ upload' = [upload EXCEPT !.pc = "failed",
                                                 !.exc = result.status]
                     /\ UNCHANGED session_file
                ELSE /\ upload' =
                          [upload EXCEPT
                             !.session_items = session_items,
                             !.menu_items = menu_items,
                             !.output_dir.docs = @ \cup {upload.index},
                             !.index = IF last THEN @ ELSE @ + 1,
                             !.pc = IF last THEN "done" ELSE "page",
                             !.result = IF last
                                        THEN [error |-> "", session_id |-> TRUE,
                                              items |-> menu_items]
                                        ELSE @]
                     /\ session_file' =
                          IF last
                          THEN [image_provider |-> DEFAULT_IMAGE_PROVIDER,
                                image_format |-> IMAGE_FORMAT_DEFAULT,
                                items |-> session_items]
                          ELSE session_file
    /\ UNCHANGED UploadUnchanged

\* only the upload directory is removed
Cleanup_upload_only ==
    /\ upload.pc = "failed"
    /\ upload' = [upload EXCEPT
                    !.pc = "done",
                    !.upload_dir = NoDirectory,
                    !.result.error = IF upload.exc = "MenuExtractionError"
                                     THEN "extraction" ELSE upload.exc]
    /\ UNCHANGED session_file
    /\ UNCHANGED UploadUnchanged

\* lines 237-245 and cleanup_session_directories: both session directories
\* are removed with all they contain and the error is returned
Cleanup ==
    /\ upload.pc = "failed"
    /\ upload' = [upload EXCEPT
                    !.pc = "done",
                    !.upload_dir = NoDirectory,
                    !.output_dir = NoDirectory,
                    !.result.error = IF upload.exc = "MenuExtractionError"
                                     THEN "extraction" ELSE upload.exc]
    /\ session_file' = <<>>
    /\ UNCHANGED UploadUnchanged

NextUpload ==
    \/ ValidateFiles
    \/ \E saved \in BOOLEAN : SavePage(saved)
    \/ CallProcessMenu
    \/ Cleanup

SpecUpload == InitUpload /\ [][NextUpload]_vars

\* the uploads C11 is about: 1 to MAX_FILES files, each of an allowed type
\* and with an answer the extraction accepts
AcceptableUpload ==
    LET valid_files == ValidFiles(upload.files)
    IN  /\ Len(valid_files) \in 1..MAX_FILES
        /\ \A i \in 1..Len(valid_files) :
              /\ allowed_file(StoredName(valid_files[i].filename, i))
              /\ clean_payload(valid_files[i].answer).status = "ok"

\* the cleaned items of pages i.. of the upload, page by page
RECURSIVE ExtractedFrom(_, _)
ExtractedFrom(valid_files, i) ==
    IF i > Len(valid_files) THEN <<>>
    ELSE clean_payload(valid_files[i].answer).items \o ExtractedFrom(valid_files, i + 1)

\* C11 as claimed: an upload of 1 to MAX_FILES pages of allowed type whose
\* extraction succeeds (and whose files can be stored) returns no error but a
\* session id and one pending entry (imageStatus "pending", image_url null)
\* with name, price and description per extracted item, and saves session
\* metadata holding those items with image_path unset.
C11_UploadReturnsPendingItems ==
    (upload.pc = "done" /\ AcceptableUpload /\ upload.exc # "OSError") =>
        LET extracted == ExtractedFrom(ValidFiles(upload.files), 1)
        IN  /\ upload.result.error = ""
            /\ upload.result.session_id
            /\ Len(upload.result.items) = Len(extracted)
            /\ \A k \in 1..Len(extracted) :
                  /\ upload.result.items[k].name = extracted[k].name
                  /\ upload.result.items[k].price = extracted[k].price
                  /\ upload.result.items[k].description = extracted[k].description
                  /\ upload.result.items[k].imageStatus = "pending"
                  /\ upload.result.items[k].image_url = <<>>
            /\ session_file # <<>>
            /\ Len(session_file.items) = Len(extracted)
            /\ \A k \in 1..Len(extracted) :
                  /\ session_file.items[k].name = extracted[k].name
                  /\ session_file.items[k].image_path = <<>>

\* C17: once the session directories exist, every exception raised while a
\* page is processed ends the call with an error result, with the upload
\* directory and the output directory removed together with the stored
\* uploads, the page directories and the page metadata, and with no session
\* metadata file left.
C17_FailureRemovesSession ==
    /\ upload.exc # "" => upload.pc \in {"failed", "done"}
    /\ upload.pc = "failed" => upload.upload_dir.exists /\ upload.output_dir.exists
    /\ (upload.pc = "done" /\ upload.exc # "") =>
          /\ upload.result.error # ""
          /\ ~upload.result.session_id
          /\ upload.upload_dir = NoDirectory
          /\ upload.output_dir = NoDirectory
          /\ session_file = <<>>

\* a two-page upload whose first page was stored before process_menu raised:
\* the error is returned and neither directory is left
C17_Witness ==
    /\ upload.pc = "done"
    /\ upload.exc = "TypeError"
    /\ Len(upload.valid_files) = 2
    /\ upload.result.error = "TypeError"
    /\ ~upload.upload_dir.exists /\ ~upload.output_dir.exists

====
